---- MODULE Spec2Model ----
(***************************************************************************)
(* Model of src/src/lib.rs (mc-api-rs): the two query functions of the     *)
(* media-controller binding, get_device_info and get_topology, run against *)
(* a kernel media device whose graph may change between any two steps.     *)
(*                                                                         *)
(* The kernel side (the graph, its version stamp, the two ioctls) is the   *)
(* environment of the program.  It is modelled as Linux answers            *)
(* MEDIA_IOC_DEVICE_INFO and MEDIA_IOC_G_TOPOLOGY: one request is atomic,  *)
(* every change of the graph increases topology_version, a request that    *)
(* fails leaves the request structure as the caller sent it.               *)
(***************************************************************************)
EXTENDS Integers, Sequences, FiniteSets, TLC

(***************************************************************************)
(* Bounds of the model.                                                    *)
(***************************************************************************)
\* capacity of a kernel text field (the ABI has 16, 32 and 64 byte fields)
FieldCap == 2
\* capacity of the buffers c_str_to_str is applied to on its own
StrCap == 4
\* the kernel graph holds at most MaxObjects objects of each kind
MaxObjects == 3
\* the kernel graph is changed at most MaxMutations times
MaxMutations == 2

(***************************************************************************)
(* Bytes and text.                                                         *)
(***************************************************************************)
\* 0 is NUL, 97 is 'a', 195 169 is the two-byte encoding of U+00E9, 255 is
\* a byte that occurs in no UTF-8 text.
Bytes == {0, 97, 169, 195, 255}

Callers == {1, 2}

Kinds == {"entities", "interfaces", "pads", "links"}

\* Errno values a request can fail with: EIO, ENOTTY, ENOSPC.
EIO == 5
ENOTTY == 25
ENOSPC == 28
Errnos == {EIO, ENOTTY}

IsCont(b) == b >= 128 /\ b <= 191

\* Number of bytes of the UTF-8 sequence starting at s[i], 0 when s[i]
\* starts no well-formed sequence (str::from_utf8, reached by to_str()).
Utf8Width(s, i) ==
  LET b == s[i]
      n == Len(s)
      c1 == i + 1 <= n /\ IsCont(s[i + 1])
      c2 == i + 2 <= n /\ IsCont(s[i + 2])
      c3 == i + 3 <= n /\ IsCont(s[i + 3])
  IN  IF b <= 127 THEN 1
      ELSE IF b >= 194 /\ b <= 223 THEN (IF c1 THEN 2 ELSE 0)
      ELSE IF b = 224 THEN (IF c1 /\ s[i + 1] >= 160 /\ c2 THEN 3 ELSE 0)
      ELSE IF b = 237 THEN (IF c1 /\ s[i + 1] <= 159 /\ c2 THEN 3 ELSE 0)
      ELSE IF b >= 225 /\ b <= 239 THEN (IF c1 /\ c2 THEN 3 ELSE 0)
      ELSE IF b = 240 THEN (IF c1 /\ s[i + 1] >= 144 /\ c2 /\ c3 THEN 4 ELSE 0)
      ELSE IF b = 244 THEN (IF c1 /\ s[i + 1] <= 143 /\ c2 /\ c3 THEN 4 ELSE 0)
      ELSE IF b >= 241 /\ b <= 243 THEN (IF c1 /\ c2 /\ c3 THEN 4 ELSE 0)
      ELSE 0

RECURSIVE IsUtf8From(_, _)
IsUtf8From(s, i) ==
  IF i > Len(s) THEN TRUE
  ELSE LET w == Utf8Width(s, i)
       IN  IF w = 0 THEN FALSE ELSE IsUtf8From(s, i + w)

\* CStr::to_str(): the bytes are text exactly when they are well-formed UTF-8.
IsUtf8(s) == IsUtf8From(s, 1)

HasNul(buf) == \E i \in 1..Len(buf) : buf[i] = 0

\* FirstNul with the search run from the end of the buffer.
LastNul(buf) == CHOOSE i \in 1..Len(buf) : buf[i] = 0 /\ \A j \in (i + 1)..Len(buf) : buf[j] # 0

FirstNul(buf) == CHOOSE i \in 1..Len(buf) : buf[i] = 0 /\ \A j \in 1..(i - 1) : buf[j] # 0

\* FromBytesUntilNul replaced by CStr::from_bytes_with_nul, which accepts
\* only a buffer whose single NUL is its last byte.
FromBytesWithNul(buf) ==
  IF HasNul(buf) /\ FirstNul(buf) = Len(buf)
  THEN [err |-> FALSE, bytes |-> SubSeq(buf, 1, Len(buf) - 1)]
  ELSE [err |-> TRUE, bytes |-> <<>>]

\* CStr::from_bytes_until_nul(c_str): the bytes before the first NUL, an
\* error when the buffer holds no NUL.
FromBytesUntilNul(buf) ==
  IF HasNul(buf)
  THEN [err |-> FALSE, bytes |-> SubSeq(buf, 1, FirstNul(buf) - 1)]
  ELSE [err |-> TRUE, bytes |-> <<>>]

\* The outcome of a call that unwinds instead of returning.
Panicked == [panic |-> TRUE, str |-> <<>>]

\* c_str_to_str made lossy: the bytes before the first NUL, or the whole
\* buffer when it has none, whatever they are.
c_str_to_str_lossy(c_str) ==
  [panic |-> FALSE,
   str |-> IF HasNul(c_str) THEN SubSeq(c_str, 1, FirstNul(c_str) - 1) ELSE c_str]

\* c_str_to_str: both unwrap() calls panic on an error; otherwise the String
\* holds the bytes before the first NUL.
c_str_to_str(c_str) ==
  LET r == FromBytesUntilNul(c_str)
  IN  IF r.err THEN Panicked
      ELSE IF ~IsUtf8(r.bytes) THEN Panicked
      ELSE [panic |-> FALSE, str |-> r.bytes]

(***************************************************************************)
(* The raw records of the kernel ABI (module media_ffi) and the values     *)
(* lib.rs converts them to.                                                *)
(***************************************************************************)
\* Text fields of capacity FieldCap: "a..a" NUL-terminated, the empty text,
\* a field with no NUL, and a NUL-terminated field that is not UTF-8.
GoodText == [i \in 1..FieldCap |-> IF i < FieldCap THEN 97 ELSE 0]
EmptyText == [i \in 1..FieldCap |-> 0]
UntermText == [i \in 1..FieldCap |-> 97]
BadText == [i \in 1..FieldCap |-> IF i = 1 THEN 255 ELSE 0]
FieldTexts == {GoodText, EmptyText, UntermText, BadText}

\* media_v2_entity, media_v2_interface, media_v2_pad, media_v2_link as the
\* kernel fills them.  The numeric fields other than the ids are derived
\* from the id so that every field of a record has a value of its own.
RawEntity(id, name) ==
  [id |-> id, name |-> name, function |-> 100 + id, flags |-> 200 + id]
RawInterface(id) ==
  [id |-> id, intf_type |-> 300 + id, flags |-> 400 + id,
   devnode |-> [major |-> 81, minor |-> id]]
RawPad(id, entity_id, index) ==
  [id |-> id, entity_id |-> entity_id, flags |-> 500 + id, index |-> index]
RawLink(id, source_id, sink_id) ==
  [id |-> id, source_id |-> source_id, sink_id |-> sink_id, flags |-> 600 + id]

\* MediaV2Entity::from_ffi; panic is set when decoding the name panics.
MediaV2Entity_from_ffi(entity) ==
  LET n == c_str_to_str(entity.name)
  IN  [panic |-> n.panic,
       val |-> [id |-> entity.id, name |-> n.str,
                function |-> entity.function, flags |-> entity.flags]]

\* MediaV2Interface::from_ffi (the devnode is not converted).
MediaV2Interface_from_ffi(intf) ==
  [id |-> intf.id, intf_type |-> intf.intf_type, flags |-> intf.flags]

\* MediaV2Pad::from_ffi with entity_id and index taken from each other's
\* raw field.
MediaV2Pad_from_ffi_mixed(pad) ==
  [id |-> pad.id, entity_id |-> pad.index, flags |-> pad.flags,
   index |-> pad.entity_id]

\* MediaV2Pad::from_ffi
MediaV2Pad_from_ffi(pad) ==
  [id |-> pad.id, entity_id |-> pad.entity_id, flags |-> pad.flags,
   index |-> pad.index]

\* MediaV2Link::from_ffi with source_id and sink_id taken from each other's
\* raw field.
MediaV2Link_from_ffi_swapped(pad) ==
  [id |-> pad.id, source_id |-> pad.sink_id, sink_id |-> pad.source_id,
   flags |-> pad.flags]

\* MediaV2Link::from_ffi
MediaV2Link_from_ffi(pad) ==
  [id |-> pad.id, source_id |-> pad.source_id, sink_id |-> pad.sink_id,
   flags |-> pad.flags]

\* MediaDeviceInfo::from_ffi with hw_version taken from driver_version.
MediaDeviceInfo_from_ffi_mixed(info) ==
  LET d == c_str_to_str(info.driver)
      m == c_str_to_str(info.model)
      s == c_str_to_str(info.serial)
      b == c_str_to_str(info.bus_info)
  IN  [panic |-> d.panic \/ m.panic \/ s.panic \/ b.panic,
       val |-> [driver |-> d.str, model |-> m.str, serial |-> s.str,
                bus_info |-> b.str, media_version |-> info.media_version,
                hw_version |-> info.driver_version,
                driver_version |-> info.driver_version]]

\* MediaDeviceInfo::from_ffi; panic is set when one of the four text fields
\* makes c_str_to_str panic.
MediaDeviceInfo_from_ffi(info) ==
  LET d == c_str_to_str(info.driver)
      m == c_str_to_str(info.model)
      s == c_str_to_str(info.serial)
      b == c_str_to_str(info.bus_info)
  IN  [panic |-> d.panic \/ m.panic \/ s.panic \/ b.panic,
       val |-> [driver |-> d.str, model |-> m.str, serial |-> s.str,
                bus_info |-> b.str, media_version |-> info.media_version,
                hw_version |-> info.hw_revision,
                driver_version |-> info.driver_version]]

(***************************************************************************)
(* The request structure media_v2_topology and the raw buffers.            *)
(***************************************************************************)
\* A request structure left uninitialised instead of zeroed: its fields hold
\* whatever the stack held.
ZeroedTopology_uninit ==
  [topology_version |-> 7,
   num_entities |-> 0, ptr_entities |-> 99,
   num_interfaces |-> 0, ptr_interfaces |-> 0,
   num_pads |-> 0, ptr_pads |-> 0,
   num_links |-> 0, ptr_links |-> 0]

\* std::mem::zeroed::<media_v2_topology>()
ZeroedTopology ==
  [topology_version |-> 0,
   num_entities |-> 0, ptr_entities |-> 0,
   num_interfaces |-> 0, ptr_interfaces |-> 0,
   num_pads |-> 0, ptr_pads |-> 0,
   num_links |-> 0, ptr_links |-> 0]

Num(t, kind) ==
  CASE kind = "entities" -> t.num_entities
    [] kind = "interfaces" -> t.num_interfaces
    [] kind = "pads" -> t.num_pads
    [] kind = "links" -> t.num_links

Ptr(t, kind) ==
  CASE kind = "entities" -> t.ptr_entities
    [] kind = "interfaces" -> t.ptr_interfaces
    [] kind = "pads" -> t.ptr_pads
    [] kind = "links" -> t.ptr_links

KindIndex(kind) ==
  CASE kind = "entities" -> 1
    [] kind = "interfaces" -> 2
    [] kind = "pads" -> 3
    [] kind = "links" -> 4

\* A Vec of raw records: its capacity, its length, and init, the records
\* written so far into its storage (the slots after them are uninitialised).
NoVec == [cap |-> 0, len |-> 0, init |-> <<>>]
NoBufs == [kind \in Kinds |-> NoVec]

\* Vec::with_capacity(n)
Vec_with_capacity(n) == [cap |-> n, len |-> 0, init |-> <<>>]

\* Vec::as_mut_ptr() when the storage of a kind is one static area that
\* all calls share instead of an allocation of the call.
Vec_as_mut_ptr_shared(c, kind, vec) ==
  IF vec.cap = 0 THEN KindIndex(kind) ELSE 16 + KindIndex(kind)

\* Vec::as_mut_ptr(): the address of the storage of caller c's buffer of
\* this kind; a Vec of capacity 0 owns no storage and yields the dangling,
\* non-null address that every empty Vec of its type shares.
Vec_as_mut_ptr(c, kind, vec) ==
  IF vec.cap = 0 THEN KindIndex(kind) ELSE 16 * c + KindIndex(kind)

\* Vec::set_len(n)
SetLen(vec, n) == [vec EXCEPT !.len = n]

\* What iterating a Vec reads: its first len slots.  A slot the kernel never
\* wrote holds uninitialised memory, which reads as some arbitrary record.
ReadVec(vec, garbage) ==
  [i \in 1..vec.len |-> IF i <= Len(vec.init) THEN vec.init[i] ELSE garbage]

\* Records that uninitialised memory may read as.
GarbageEntities == {RawEntity(0, UntermText), RawEntity(77, GoodText)}
GarbageInterfaces == {RawInterface(0), RawInterface(77)}
GarbagePads == {RawPad(0, 0, 0), RawPad(77, 78, 1)}
GarbageLinks == {RawLink(0, 0, 0), RawLink(77, 78, 79)}

(***************************************************************************)
(* State.                                                                  *)
(***************************************************************************)
VARIABLES
  kernel,        \* the kernel's media graph and its topology_version
  kinfo,         \* the kernel's media_device_info of the device
  pc,            \* where each caller is in the function it runs
  fn,            \* the function each caller runs
  video_device,  \* whether the File each caller opened is still open
  topology,      \* each caller's request structure media_v2_topology
  version,       \* each caller's local `version`
  bufs,          \* each caller's four raw Vecs
  dev_info,      \* each caller's media_device_info
  result,        \* what each caller's last call returned
  nreq,          \* the number of requests each caller's call has issued
  hist,          \* what each caller's requests carried and were answered
  strIn,         \* the buffer c_str_to_str is applied to on its own
  strOut         \* its outcome

vars == <<kernel, kinfo, pc, fn, video_device, topology, version, bufs,
          dev_info, result, nreq, hist, strIn, strOut>>

callVars == <<pc, fn, video_device, topology, version, bufs, dev_info,
              result, nreq, hist>>

(***************************************************************************)
(* The kernel.                                                             *)
(***************************************************************************)
EmptyGraph ==
  [topology_version |-> 0, entities |-> <<>>, interfaces |-> <<>>,
   pads |-> <<>>, links |-> <<>>]

\* One entity with a source pad and a sink pad and the link between them.
\* Every object gets the value of topology_version at its creation as id.
InitialGraph ==
  [topology_version |-> 4,
   entities |-> <<RawEntity(1, GoodText)>>,
   interfaces |-> <<>>,
   pads |-> <<RawPad(2, 1, 0), RawPad(3, 1, 1)>>,
   links |-> <<RawLink(4, 2, 3)>>]

Objects(k, kind) ==
  CASE kind = "entities" -> k.entities
    [] kind = "interfaces" -> k.interfaces
    [] kind = "pads" -> k.pads
    [] kind = "links" -> k.links

Min(a, b) == IF a <= b THEN a ELSE b

Ids(s) == {s[i].id : i \in 1..Len(s)}

Remove(s, i) == SubSeq(s, 1, i - 1) \o SubSeq(s, i + 1, Len(s))

\* MEDIA_IOC_G_TOPOLOGY on graph k with request structure arg: errno is 0
\* or ENOSPC (a collection does not fit the count given with a non-null
\* pointer); reply is the structure handed back; written is what the kernel
\* copied to the memory each pointer names.  The kernel copies the
\* collections in the order entities, interfaces, pads, links and stops
\* copying at the first one that does not fit.
KernelTopology(k, arg) ==
  LET over(kind) == Ptr(arg, kind) # 0 /\ Len(Objects(k, kind)) > Num(arg, kind)
      failedBefore(kind) ==
        \E k2 \in Kinds : KindIndex(k2) < KindIndex(kind) /\ over(k2)
      anyOver == \E kind \in Kinds : over(kind)
      copied(kind) ==
        IF Ptr(arg, kind) = 0 \/ failedBefore(kind) THEN <<>>
        ELSE SubSeq(Objects(k, kind), 1, Min(Num(arg, kind), Len(Objects(k, kind))))
  IN  [errno |-> IF anyOver THEN ENOSPC ELSE 0,
       reply |-> IF anyOver THEN arg
                 ELSE [arg EXCEPT !.topology_version = k.topology_version,
                                  !.num_entities = Len(k.entities),
                                  !.num_interfaces = Len(k.interfaces),
                                  !.num_pads = Len(k.pads),
                                  !.num_links = Len(k.links)],
       written |-> [kind \in Kinds |-> copied(kind)]]

\* std::mem::zeroed::<media_device_info>()
ZeroedInfo ==
  [driver |-> EmptyText, model |-> EmptyText, serial |-> EmptyText,
   bus_info |-> EmptyText, media_version |-> 0, hw_revision |-> 0,
   driver_version |-> 0]

DeviceInfos ==
  [driver : FieldTexts, model : FieldTexts, serial : FieldTexts,
   bus_info : FieldTexts, media_version : {1}, hw_revision : {2, 5},
   driver_version : {3}]

GoodInfo ==
  [driver |-> GoodText, model |-> GoodText, serial |-> EmptyText,
   bus_info |-> GoodText, media_version |-> 1, hw_revision |-> 2,
   driver_version |-> 3]

MayMutate == kernel.topology_version < InitialGraph.topology_version + MaxMutations

\* A change of the graph: the new collections replace the old ones and
\* topology_version increases.  Every caller that is between its two
\* topology requests has now seen a graph that no longer exists.
Mutate(g) ==
  /\ MayMutate
  /\ kernel' = [g EXCEPT !.topology_version = kernel.topology_version + 1]
  /\ hist' = [c \in Callers |->
                IF fn[c] = "get_topology" /\ pc[c] \in {"allocate", "data"}
                THEN [hist[c] EXCEPT !.mutated = TRUE] ELSE hist[c]]
  /\ UNCHANGED <<kinfo, pc, fn, video_device, topology, version, bufs,
                 dev_info, result, nreq, strIn, strOut>>

NewId == kernel.topology_version + 1

KAddEntity ==
  /\ Len(kernel.entities) < MaxObjects
  /\ \E name \in FieldTexts :
       Mutate([kernel EXCEPT !.entities = Append(@, RawEntity(NewId, name))])

\* Removing an entity removes its pads and the links that use them.
KRemoveEntity ==
  \E i \in 1..Len(kernel.entities) :
    LET e == kernel.entities[i].id
        keepPad(p) == p.entity_id # e
        pads2 == SelectSeq(kernel.pads, keepPad)
        keepLink(l) == l.source_id \in Ids(pads2) /\ l.sink_id \in Ids(pads2)
    IN  Mutate([kernel EXCEPT !.entities = Remove(@, i),
                              !.pads = pads2,
                              !.links = SelectSeq(@, keepLink)])

KAddInterface ==
  /\ Len(kernel.interfaces) < MaxObjects
  /\ Mutate([kernel EXCEPT !.interfaces = Append(@, RawInterface(NewId))])

KRemoveInterface ==
  \E i \in 1..Len(kernel.interfaces) :
    Mutate([kernel EXCEPT !.interfaces = Remove(@, i)])

KAddPad ==
  /\ Len(kernel.pads) < MaxObjects
  /\ \E i \in 1..Len(kernel.entities) :
       LET e == kernel.entities[i].id
           own == {j \in 1..Len(kernel.pads) : kernel.pads[j].entity_id = e}
       IN  Mutate([kernel EXCEPT !.pads = Append(@, RawPad(NewId, e, Cardinality(own)))])

KAddLink ==
  /\ Len(kernel.links) < MaxObjects
  /\ \E i, j \in 1..Len(kernel.pads) :
       /\ i # j
       /\ Mutate([kernel EXCEPT
                    !.links = Append(@, RawLink(NewId, kernel.pads[i].id, kernel.pads[j].id))])

KRemoveLink ==
  \E i \in 1..Len(kernel.links) :
    Mutate([kernel EXCEPT !.links = Remove(@, i)])

KernelStep ==
  \/ KAddEntity
  \/ KRemoveEntity
  \/ KAddInterface
  \/ KRemoveInterface
  \/ KAddPad
  \/ KAddLink
  \/ KRemoveLink

(***************************************************************************)
(* What a call returns.                                                    *)
(***************************************************************************)
NoValue == [none |-> TRUE]

NoResult ==
  [kind |-> "none", errno |-> 0, old_version |-> 0, new_version |-> 0,
   value |-> NoValue]

\* Result::Ok(value)
Ok(value) == [NoResult EXCEPT !.kind = "Ok", !.value = value]

\* Result::Err(err) of get_device_info
Err(err) == [NoResult EXCEPT !.kind = "Err", !.errno = err]

\* IoctlError built from the raw return value of the request (-1) instead
\* of the errno.
IoctlError_raw(err) == [NoResult EXCEPT !.kind = "IoctlError", !.errno = -1]

\* GetTopologyError::IoctlError(err)
IoctlError(err) == [NoResult EXCEPT !.kind = "IoctlError", !.errno = err]

\* VersionChange with the two versions in each other's field.
VersionChange_swapped(local_version, t) ==
  [NoResult EXCEPT !.kind = "VersionChange", !.old_version = t.topology_version,
                   !.new_version = local_version]

\* GetTopologyError::VersionChange { old_version: version,
\*                                   new_version: topology.topology_version }
VersionChange(local_version, t) ==
  [NoResult EXCEPT !.kind = "VersionChange", !.old_version = local_version,
                   !.new_version = t.topology_version]

\* An unwrap() that failed: the call unwinds and returns nothing.
Panic == [NoResult EXCEPT !.kind = "Panic"]

\* What is recorded of one request: the structure as sent, the errno (0 on
\* success), the structure as handed back, the graph it was answered from,
\* and whether the caller's File was open when it was issued.
NoRequest ==
  [sent |-> FALSE, errno |-> 0, arg |-> ZeroedTopology,
   reply |-> ZeroedTopology, graph |-> EmptyGraph, fd_open |-> FALSE]

NoInfoRequest ==
  [sent |-> FALSE, errno |-> 0, reply |-> ZeroedInfo, fd_open |-> FALSE]

\* What is recorded of one call: its requests, whether the graph changed
\* between its two topology requests, whether it has read its buffers, and
\* prev, how the call before it ended when this call is a caller's retry.
NoHist ==
  [opened |-> FALSE, sizing |-> NoRequest, data |-> NoRequest,
   info |-> NoInfoRequest, mutated |-> FALSE, decoded |-> FALSE,
   prev |-> "none"]

Paths == {"/dev/media0", "/dev/missing"}

\* std::fs::File::open(path) succeeds for the device node that exists.
FileOpens(path) == path = "/dev/media0"

(***************************************************************************)
(* get_topology                                                            *)
(***************************************************************************)
\* AllocateBuffers with the links line copied from the interfaces line.
AllocateBuffers_copied(t) ==
  [kind \in Kinds |->
     Vec_with_capacity(IF kind = "links" THEN t.num_interfaces ELSE Num(t, kind))]

\* Lines 170-175: four Vecs whose capacities are the counts in `topology`.
AllocateBuffers(t) == [kind \in Kinds |-> Vec_with_capacity(Num(t, kind))]

\* WithPointers with the interfaces line copied from the entities line.
WithPointers_copied(c, t, b) ==
  [t EXCEPT !.ptr_entities = Vec_as_mut_ptr(c, "entities", b["entities"]),
            !.ptr_interfaces = Vec_as_mut_ptr(c, "entities", b["entities"]),
            !.ptr_pads = Vec_as_mut_ptr(c, "pads", b["pads"]),
            !.ptr_links = Vec_as_mut_ptr(c, "links", b["links"])]

\* Lines 178-181: the addresses of the four Vecs go into `topology`.
WithPointers(c, t, b) ==
  [t EXCEPT !.ptr_entities = Vec_as_mut_ptr(c, "entities", b["entities"]),
            !.ptr_interfaces = Vec_as_mut_ptr(c, "interfaces", b["interfaces"]),
            !.ptr_pads = Vec_as_mut_ptr(c, "pads", b["pads"]),
            !.ptr_links = Vec_as_mut_ptr(c, "links", b["links"])]

\* The version check made against a stamp kept from the first call ever
\* made instead of the stamp of this call's sizing request.
VersionDiffers_first(t, local_version) ==
  t.topology_version # InitialGraph.topology_version

\* The version check comparing the structure's version with itself.
VersionDiffers_self(t, local_version) == t.topology_version # t.topology_version

\* The version check written with < instead of !=.
VersionDiffers_less(t, local_version) == t.topology_version < local_version

\* Line 186: topology.topology_version != version
VersionDiffers(t, local_version) == t.topology_version # local_version

\* SetLens with the interfaces line copied from the entities line.
SetLens_copied(b, t) ==
  [kind \in Kinds |->
     CASE kind = "entities" -> SetLen(b[kind], t.num_entities)
       [] kind = "interfaces" -> SetLen(b[kind], t.num_entities)
       [] kind = "pads" -> SetLen(b[kind], t.num_pads)
       [] kind = "links" -> SetLen(b[kind], t.num_links)]

\* Lines 192-195: each Vec gets the count now in `topology` as its length.
SetLens(b, t) ==
  [kind \in Kinds |->
     CASE kind = "entities" -> SetLen(b[kind], t.num_entities)
       [] kind = "interfaces" -> SetLen(b[kind], t.num_interfaces)
       [] kind = "pads" -> SetLen(b[kind], t.num_pads)
       [] kind = "links" -> SetLen(b[kind], t.num_links)]

\* Lines 212-218: the MediaV2Topology that is returned.
MediaV2Topology(t, entities, interfaces, pads, links) ==
  [topology_version |-> t.topology_version, entities |-> entities,
   interfaces |-> interfaces, pads |-> pads, links |-> links]

\* The memory after the kernel copied `written` to the addresses in arg:
\* a buffer changes when one of the four pointers is its address.
KernelWrites(arg, written) ==
  [d \in Callers |->
     [kd \in Kinds |->
        LET hits == {k2 \in Kinds : Ptr(arg, k2) = Vec_as_mut_ptr(d, kd, bufs[d][kd])
                                     /\ bufs[d][kd].cap > 0}
        IN  IF hits = {} THEN bufs[d][kd]
            ELSE [bufs[d][kd] EXCEPT !.init = written[CHOOSE k2 \in hits : TRUE]]]]

\* A return that leaves the descriptor open, as when the File is turned
\* into its raw descriptor and never closed.
Return_leak(c, r) ==
  /\ result' = [result EXCEPT ![c] = r]
  /\ video_device' = video_device
  /\ pc' = [pc EXCEPT ![c] = "done"]

\* A return of caller c's function with result r: the File is dropped.
Return(c, r) ==
  /\ result' = [result EXCEPT ![c] = r]
  /\ video_device' = [video_device EXCEPT ![c] = FALSE]
  /\ pc' = [pc EXCEPT ![c] = "done"]

\* Lines 157-159: File::open(path).unwrap(), as_raw_fd(), zeroed topology.
\* A caller starts a call when it runs none; what its previous call left
\* behind is gone.
TopologyOpen(c) ==
  /\ pc[c] \in {"idle", "done"}
  /\ fn' = [fn EXCEPT ![c] = "get_topology"]
  /\ topology' = [topology EXCEPT ![c] = ZeroedTopology]
  /\ version' = [version EXCEPT ![c] = 0]
  /\ bufs' = [bufs EXCEPT ![c] = NoBufs]
  /\ dev_info' = [dev_info EXCEPT ![c] = ZeroedInfo]
  /\ nreq' = [nreq EXCEPT ![c] = 0]
  /\ \E path \in Paths :
       IF FileOpens(path)
       THEN /\ video_device' = [video_device EXCEPT ![c] = TRUE]
            /\ pc' = [pc EXCEPT ![c] = "sizing"]
            /\ result' = [result EXCEPT ![c] = NoResult]
            /\ hist' = [hist EXCEPT ![c] = [NoHist EXCEPT !.opened = TRUE]]
       ELSE /\ Return(c, Panic)
            /\ hist' = [hist EXCEPT ![c] = NoHist]
  /\ UNCHANGED <<kernel, kinfo, strIn, strOut>>

\* The request of line 161 fails: lines 163-164.
SizingFails(c) ==
  /\ fn[c] = "get_topology" /\ pc[c] = "sizing"
  /\ \E e \in Errnos :
       /\ Return(c, IoctlError(e))
       /\ hist' = [hist EXCEPT ![c].sizing =
                     [sent |-> TRUE, errno |-> e, arg |-> topology[c],
                      reply |-> topology[c], graph |-> kernel,
                      fd_open |-> video_device[c]]]
  /\ nreq' = [nreq EXCEPT ![c] = @ + 1]
  /\ UNCHANGED <<kernel, kinfo, fn, topology, version, bufs, dev_info,
                 strIn, strOut>>

\* Lines 161-168: the sizing request succeeds; `version` is taken from it.
\* (The pointers it carries are null, so the kernel never answers ENOSPC.)
Sizing(c) ==
  /\ fn[c] = "get_topology" /\ pc[c] = "sizing"
  /\ LET r == KernelTopology(kernel, topology[c])
     IN  /\ r.errno = 0
         /\ topology' = [topology EXCEPT ![c] = r.reply]
         /\ version' = [version EXCEPT ![c] = r.reply.topology_version]
         /\ bufs' = KernelWrites(topology[c], r.written)
         /\ hist' = [hist EXCEPT ![c].sizing =
                       [sent |-> TRUE, errno |-> 0, arg |-> topology[c],
                        reply |-> r.reply, graph |-> kernel,
                        fd_open |-> video_device[c]]]
  /\ nreq' = [nreq EXCEPT ![c] = @ + 1]
  /\ pc' = [pc EXCEPT ![c] = "allocate"]
  /\ UNCHANGED <<kernel, kinfo, fn, video_device, dev_info, result, strIn, strOut>>

\* Lines 170-181.
Allocate(c) ==
  /\ fn[c] = "get_topology" /\ pc[c] = "allocate"
  /\ LET b == AllocateBuffers(topology[c])
     IN  /\ bufs' = [bufs EXCEPT ![c] = b]
         /\ topology' = [topology EXCEPT ![c] = WithPointers(c, topology[c], b)]
  /\ pc' = [pc EXCEPT ![c] = "data"]
  /\ UNCHANGED <<kernel, kinfo, fn, video_device, version, dev_info, result,
                 nreq, hist, strIn, strOut>>

\* The request of line 182 fails, with an errno of the transport or with
\* the kernel's ENOSPC: lines 183-185.  What the kernel copied before it
\* failed stays in the buffers.
DataFails(c) ==
  /\ fn[c] = "get_topology" /\ pc[c] = "data"
  /\ LET r == KernelTopology(kernel, topology[c])
     IN  \E e \in Errnos \cup {ENOSPC} :
           /\ e = ENOSPC => r.errno = ENOSPC
           /\ bufs' = IF e = ENOSPC THEN KernelWrites(topology[c], r.written) ELSE bufs
           /\ Return(c, IoctlError(e))
           /\ hist' = [hist EXCEPT ![c].data =
                         [sent |-> TRUE, errno |-> e, arg |-> topology[c],
                          reply |-> topology[c], graph |-> kernel,
                          fd_open |-> video_device[c]]]
  /\ nreq' = [nreq EXCEPT ![c] = @ + 1]
  /\ UNCHANGED <<kernel, kinfo, fn, topology, version, dev_info, strIn, strOut>>

\* Line 182: the data request succeeds; the kernel has filled the buffers.
Data(c) ==
  /\ fn[c] = "get_topology" /\ pc[c] = "data"
  /\ LET r == KernelTopology(kernel, topology[c])
     IN  /\ r.errno = 0
         /\ topology' = [topology EXCEPT ![c] = r.reply]
         /\ bufs' = KernelWrites(topology[c], r.written)
         /\ hist' = [hist EXCEPT ![c].data =
                       [sent |-> TRUE, errno |-> 0, arg |-> topology[c],
                        reply |-> r.reply, graph |-> kernel,
                        fd_open |-> video_device[c]]]
  /\ nreq' = [nreq EXCEPT ![c] = @ + 1]
  /\ pc' = [pc EXCEPT ![c] = "check"]
  /\ UNCHANGED <<kernel, kinfo, fn, video_device, version, dev_info, result,
                 strIn, strOut>>

\* On a version mismatch the query starts over instead of returning.
RetryOnVersionChange(c) ==
  /\ topology' = [topology EXCEPT ![c] = ZeroedTopology]
  /\ bufs' = [bufs EXCEPT ![c] = NoBufs]
  /\ pc' = [pc EXCEPT ![c] = "sizing"]
  /\ UNCHANGED <<kernel, kinfo, fn, video_device, version, dev_info, result,
                 nreq, hist, strIn, strOut>>

\* Lines 186-191: the versions differ.
ReturnVersionChange(c) ==
  /\ Return(c, VersionChange(version[c], topology[c]))
  /\ UNCHANGED <<kernel, kinfo, fn, topology, version, bufs, dev_info, nreq,
                 hist, strIn, strOut>>

\* Lines 192-195: the versions are equal.
MarkInitialised(c) ==
  /\ bufs' = [bufs EXCEPT ![c] = SetLens(bufs[c], topology[c])]
  /\ pc' = [pc EXCEPT ![c] = "decode"]
  /\ UNCHANGED <<kernel, kinfo, fn, video_device, topology, version, dev_info,
                 result, nreq, hist, strIn, strOut>>

\* Check with the four set_len calls moved in front of the comparison.
Check_setLenFirst(c) ==
  /\ fn[c] = "get_topology" /\ pc[c] = "check"
  /\ bufs' = [bufs EXCEPT ![c] = SetLens(bufs[c], topology[c])]
  /\ IF VersionDiffers(topology[c], version[c])
     THEN /\ Return(c, VersionChange(version[c], topology[c]))
          /\ UNCHANGED <<kernel, kinfo, fn, topology, version, dev_info, nreq,
                         hist, strIn, strOut>>
     ELSE /\ pc' = [pc EXCEPT ![c] = "decode"]
          /\ UNCHANGED <<kernel, kinfo, fn, video_device, topology, version,
                         dev_info, result, nreq, hist, strIn, strOut>>

\* Lines 186-195.
Check(c) ==
  /\ fn[c] = "get_topology" /\ pc[c] = "check"
  /\ IF VersionDiffers(topology[c], version[c])
     THEN ReturnVersionChange(c)
     ELSE MarkInitialised(c)

\* Lines 198-220: the four Vecs are converted in order; the first name that
\* c_str_to_str cannot decode makes the call panic.
Decode(c) ==
  /\ fn[c] = "get_topology" /\ pc[c] = "decode"
  /\ \E ge \in GarbageEntities, gi \in GarbageInterfaces,
        gp \in GarbagePads, gl \in GarbageLinks :
       LET rawE == ReadVec(bufs[c]["entities"], ge)
           rawI == ReadVec(bufs[c]["interfaces"], gi)
           rawP == ReadVec(bufs[c]["pads"], gp)
           rawL == ReadVec(bufs[c]["links"], gl)
           es == [i \in 1..Len(rawE) |-> MediaV2Entity_from_ffi(rawE[i])]
           entities == [i \in 1..Len(es) |-> es[i].val]
           interfaces == [i \in 1..Len(rawI) |-> MediaV2Interface_from_ffi(rawI[i])]
           pads == [i \in 1..Len(rawP) |-> MediaV2Pad_from_ffi(rawP[i])]
           links == [i \in 1..Len(rawL) |-> MediaV2Link_from_ffi(rawL[i])]
       IN  IF \E i \in 1..Len(es) : es[i].panic
           THEN Return(c, Panic)
           ELSE Return(c, Ok(MediaV2Topology(topology[c], entities, interfaces, pads, links)))
  /\ hist' = [hist EXCEPT ![c].decoded = TRUE]
  /\ UNCHANGED <<kernel, kinfo, fn, topology, version, bufs, dev_info, nreq,
                 strIn, strOut>>

get_topology(c) ==
  \/ TopologyOpen(c)
  \/ SizingFails(c)
  \/ Sizing(c)
  \/ Allocate(c)
  \/ DataFails(c)
  \/ Data(c)
  \/ Check(c)
  \/ Decode(c)

(***************************************************************************)
(* get_device_info                                                         *)
(***************************************************************************)
\* MEDIA_IOC_DEVICE_INFO: the kernel hands back its media_device_info.
KernelDeviceInfo(info) == info

\* Lines 139-141: File::open(path).unwrap(), as_raw_fd(), zeroed dev_info.
InfoOpen(c) ==
  /\ pc[c] \in {"idle", "done"}
  /\ fn' = [fn EXCEPT ![c] = "get_device_info"]
  /\ topology' = [topology EXCEPT ![c] = ZeroedTopology]
  /\ version' = [version EXCEPT ![c] = 0]
  /\ bufs' = [bufs EXCEPT ![c] = NoBufs]
  /\ dev_info' = [dev_info EXCEPT ![c] = ZeroedInfo]
  /\ nreq' = [nreq EXCEPT ![c] = 0]
  /\ \E path \in Paths :
       IF FileOpens(path)
       THEN /\ video_device' = [video_device EXCEPT ![c] = TRUE]
            /\ pc' = [pc EXCEPT ![c] = "info"]
            /\ result' = [result EXCEPT ![c] = NoResult]
            /\ hist' = [hist EXCEPT ![c] = [NoHist EXCEPT !.opened = TRUE]]
       ELSE /\ Return(c, Panic)
            /\ hist' = [hist EXCEPT ![c] = NoHist]
  /\ UNCHANGED <<kernel, kinfo, strIn, strOut>>

\* Lines 143 and 146: the request fails and its errno is returned.
InfoFails(c) ==
  /\ fn[c] = "get_device_info" /\ pc[c] = "info"
  /\ \E e \in Errnos :
       /\ Return(c, Err(e))
       /\ hist' = [hist EXCEPT ![c].info =
                     [sent |-> TRUE, errno |-> e, reply |-> dev_info[c],
                      fd_open |-> video_device[c]]]
  /\ nreq' = [nreq EXCEPT ![c] = @ + 1]
  /\ UNCHANGED <<kernel, kinfo, fn, topology, version, bufs, dev_info,
                 strIn, strOut>>

\* Line 143: the request succeeds and dev_info holds the kernel's answer.
InfoRequest(c) ==
  /\ fn[c] = "get_device_info" /\ pc[c] = "info"
  /\ dev_info' = [dev_info EXCEPT ![c] = KernelDeviceInfo(kinfo)]
  /\ hist' = [hist EXCEPT ![c].info =
                [sent |-> TRUE, errno |-> 0, reply |-> KernelDeviceInfo(kinfo),
                 fd_open |-> video_device[c]]]
  /\ nreq' = [nreq EXCEPT ![c] = @ + 1]
  /\ pc' = [pc EXCEPT ![c] = "info_decode"]
  /\ UNCHANGED <<kernel, kinfo, fn, video_device, topology, version, bufs,
                 result, strIn, strOut>>

\* Line 145: Ok(MediaDeviceInfo::from_ffi(&dev_info)), or the panic of a
\* text field that c_str_to_str cannot decode.
InfoDecode(c) ==
  /\ fn[c] = "get_device_info" /\ pc[c] = "info_decode"
  /\ LET d == MediaDeviceInfo_from_ffi(dev_info[c])
     IN  IF d.panic THEN Return(c, Panic) ELSE Return(c, Ok(d.val))
  /\ UNCHANGED <<kernel, kinfo, fn, topology, version, bufs, dev_info, nreq,
                 hist, strIn, strOut>>

get_device_info(c) ==
  \/ InfoOpen(c)
  \/ InfoFails(c)
  \/ InfoRequest(c)
  \/ InfoDecode(c)

(***************************************************************************)
(* c_str_to_str on its own.                                                *)
(***************************************************************************)
NotCalled == [called |-> FALSE, ret |-> Panicked]

CallCStrToStr ==
  /\ ~strOut.called
  /\ strOut' = [called |-> TRUE, ret |-> c_str_to_str(strIn)]
  /\ UNCHANGED <<kernel, kinfo, pc, fn, video_device, topology, version, bufs,
                 dev_info, result, nreq, hist, strIn>>

(***************************************************************************)
(* Specification of get_topology against a kernel whose graph changes.     *)
(***************************************************************************)
InitCalls ==
  /\ pc = [c \in Callers |-> "idle"]
  /\ fn = [c \in Callers |-> "none"]
  /\ video_device = [c \in Callers |-> FALSE]
  /\ topology = [c \in Callers |-> ZeroedTopology]
  /\ version = [c \in Callers |-> 0]
  /\ bufs = [c \in Callers |-> NoBufs]
  /\ dev_info = [c \in Callers |-> ZeroedInfo]
  /\ result = [c \in Callers |-> NoResult]
  /\ nreq = [c \in Callers |-> 0]
  /\ hist = [c \in Callers |-> NoHist]

Init ==
  /\ kernel = InitialGraph
  /\ kinfo = GoodInfo
  /\ InitCalls
  /\ strIn = <<>>
  /\ strOut = NotCalled

Next ==
  \/ KernelStep
  \/ get_topology(1)

Spec == Init /\ [][Next]_vars


(***************************************************************************)
(* Specification of get_device_info against every identity of the device.  *)
(***************************************************************************)
InitInfo ==
  /\ kernel = InitialGraph
  /\ kinfo \in DeviceInfos
  /\ InitCalls
  /\ strIn = <<>>
  /\ strOut = NotCalled

NextInfo == get_device_info(1)

SpecInfo == InitInfo /\ [][NextInfo]_vars

(***************************************************************************)
(* Specification of c_str_to_str over every buffer of StrCap bytes.        *)
(***************************************************************************)
InitStr ==
  /\ kernel = InitialGraph
  /\ kinfo = GoodInfo
  /\ InitCalls
  /\ strIn \in [1..StrCap -> Bytes]
  /\ strOut = NotCalled

NextStr == CallCStrToStr

SpecStr == InitStr /\ [][NextStr]_vars

(***************************************************************************)
(* Specification of a caller that calls get_topology again whenever it     *)
(* returned VersionChange.  The caller keeps taking steps (weak fairness); *)
(* the kernel changes its graph at most MaxMutations times.                *)
(***************************************************************************)
\* The caller's next call of get_topology(path) after a VersionChange, with
\* the path that opened before: lines 157-159 again.
TopologyRetry(c) ==
  /\ fn[c] = "get_topology" /\ pc[c] = "done"
  /\ result[c].kind = "VersionChange"
  /\ fn' = fn
  /\ topology' = [topology EXCEPT ![c] = ZeroedTopology]
  /\ version' = [version EXCEPT ![c] = 0]
  /\ bufs' = [bufs EXCEPT ![c] = NoBufs]
  /\ dev_info' = [dev_info EXCEPT ![c] = ZeroedInfo]
  /\ nreq' = [nreq EXCEPT ![c] = 0]
  /\ video_device' = [video_device EXCEPT ![c] = TRUE]
  /\ pc' = [pc EXCEPT ![c] = "sizing"]
  /\ result' = [result EXCEPT ![c] = NoResult]
  /\ hist' = [hist EXCEPT ![c] = [NoHist EXCEPT !.opened = TRUE,
                                                !.prev = "VersionChange"]]
  /\ UNCHANGED <<kernel, kinfo, strIn, strOut>>

\* The caller's first call, on a path that opens.
TopologyFirst(c) ==
  /\ pc[c] = "idle"
  /\ TopologyOpen(c)
  /\ video_device'[c]

RetryingCaller(c) ==
  \/ TopologyFirst(c)
  \/ TopologyRetry(c)
  \/ SizingFails(c)
  \/ Sizing(c)
  \/ Allocate(c)
  \/ DataFails(c)
  \/ Data(c)
  \/ Check(c)
  \/ Decode(c)

NextRetry ==
  \/ KernelStep
  \/ RetryingCaller(1)

SpecRetry == Init /\ [][NextRetry]_vars /\ WF_vars(RetryingCaller(1))

(***************************************************************************)
(* Specification of two callers that each call get_topology once on the    *)
(* device while the kernel changes its graph: their requests and the       *)
(* kernel's changes interleave in every order.                             *)
(***************************************************************************)
\* One call of get_topology on a path that opens.
TopologyCaller(c) ==
  \/ TopologyFirst(c)
  \/ SizingFails(c)
  \/ Sizing(c)
  \/ Allocate(c)
  \/ DataFails(c)
  \/ Data(c)
  \/ Check(c)
  \/ Decode(c)

\* The changes of the graph made during the two calls: one that makes a
\* collection grow, one that removes a link and one that removes an entity
\* with its pads and links.
OverlapKernelStep ==
  \/ KAddPad
  \/ KRemoveEntity
  \/ KRemoveLink

NextOverlap ==
  \/ OverlapKernelStep
  \/ TopologyCaller(1)
  \/ TopologyCaller(2)

SpecOverlap == Init /\ [][NextOverlap]_vars

(***************************************************************************)
(* Specification of both queries on one device: one caller calls           *)
(* get_topology, another get_device_info, each once on a path that opens;  *)
(* the device's identity has at most one text field outside the driver     *)
(* contract, and the kernel adds entities under any name and removes       *)
(* links.                                                                  *)
(***************************************************************************)
\* The caller's call of get_device_info on a path that opens.
InfoFirst(c) ==
  /\ pc[c] = "idle"
  /\ InfoOpen(c)
  /\ video_device'[c]

InfoCaller(c) ==
  \/ InfoFirst(c)
  \/ InfoFails(c)
  \/ InfoRequest(c)
  \/ InfoDecode(c)

DeviceKernelStep ==
  \/ KAddEntity
  \/ KRemoveLink

InitDevice ==
  /\ kernel = InitialGraph
  /\ kinfo \in {GoodInfo, [GoodInfo EXCEPT !.driver = UntermText],
                [GoodInfo EXCEPT !.bus_info = BadText]}
  /\ InitCalls
  /\ strIn = <<>>
  /\ strOut = NotCalled

NextDevice ==
  \/ DeviceKernelStep
  \/ TopologyCaller(1)
  \/ InfoCaller(2)

SpecDevice == InitDevice /\ [][NextDevice]_vars

(***************************************************************************)
(* Properties.                                                             *)
(***************************************************************************)
TopologyDone(c) == fn[c] = "get_topology" /\ pc[c] = "done"

InfoDone(c) == fn[c] = "get_device_info" /\ pc[c] = "done"

Succeeded(req) == req.sent /\ req.errno = 0

Failed(req) == req.sent /\ req.errno # 0

SizingVersion(c) == hist[c].sizing.reply.topology_version

DataVersion(c) == hist[c].data.reply.topology_version

\* The number of leading bytes of buf that are not NUL.
PrefixLen(buf) ==
  CHOOSE n \in 0..Len(buf) :
    /\ \A i \in 1..n : buf[i] # 0
    /\ n = Len(buf) \/ buf[n + 1] = 0

TextOf(buf) == SubSeq(buf, 1, PrefixLen(buf))

\* A text field the kernel contract excludes: no NUL, or bytes before the
\* first NUL that are not UTF-8.
Undecodable(buf) == ~HasNul(buf) \/ ~IsUtf8(TextOf(buf))

\* The snapshot t holds, in order, exactly the objects of graph g.
Mirrors(t, g) ==
  /\ t.topology_version = g.topology_version
  /\ Len(t.entities) = Len(g.entities)
  /\ Len(t.interfaces) = Len(g.interfaces)
  /\ Len(t.pads) = Len(g.pads)
  /\ Len(t.links) = Len(g.links)
  /\ \A i \in 1..Len(g.entities) :
       /\ t.entities[i].id = g.entities[i].id
       /\ t.entities[i].name = TextOf(g.entities[i].name)
       /\ t.entities[i].function = g.entities[i].function
       /\ t.entities[i].flags = g.entities[i].flags
  /\ \A i \in 1..Len(g.interfaces) :
       /\ t.interfaces[i].id = g.interfaces[i].id
       /\ t.interfaces[i].intf_type = g.interfaces[i].intf_type
       /\ t.interfaces[i].flags = g.interfaces[i].flags
  /\ \A i \in 1..Len(g.pads) :
       /\ t.pads[i].id = g.pads[i].id
       /\ t.pads[i].entity_id = g.pads[i].entity_id
       /\ t.pads[i].flags = g.pads[i].flags
       /\ t.pads[i].index = g.pads[i].index
  /\ \A i \in 1..Len(g.links) :
       /\ t.links[i].id = g.links[i].id
       /\ t.links[i].source_id = g.links[i].source_id
       /\ t.links[i].sink_id = g.links[i].sink_id
       /\ t.links[i].flags = g.links[i].flags

\* C1: when both requests of a get_topology call succeeded and the data
\* request returned another version than the sizing request, the call
\* returns VersionChange with old_version the sizing version, new_version
\* the data version, the two different, and no snapshot; such a call never
\* reaches the decoding of its buffers.
C1_VersionChangeReported ==
  \A c \in Callers :
    (/\ fn[c] = "get_topology"
     /\ Succeeded(hist[c].sizing) /\ Succeeded(hist[c].data)
     /\ DataVersion(c) # SizingVersion(c))
    => /\ pc[c] \in {"check", "done"}
       /\ pc[c] = "done" =>
            /\ result[c].kind = "VersionChange"
            /\ result[c].old_version = SizingVersion(c)
            /\ result[c].new_version = DataVersion(c)
            /\ result[c].old_version # result[c].new_version
            /\ result[c].value = NoValue

C1_Witness ==
  \E c \in Callers :
    /\ TopologyDone(c)
    /\ Succeeded(hist[c].sizing) /\ Succeeded(hist[c].data)
    /\ DataVersion(c) # SizingVersion(c)
    /\ result[c].kind = "VersionChange"

\* C2: when the sizing request or the data request of a get_topology call
\* failed, the call returns IoctlError with the errno of that request and
\* no collections; a failed sizing request is the call's only request; a
\* failed data request gives IoctlError also when the graph changed since
\* the sizing request.
C2_IoctlErrorReported ==
  \A c \in Callers :
    fn[c] = "get_topology" =>
      /\ Failed(hist[c].sizing) =>
           /\ pc[c] = "done"
           /\ result[c].kind = "IoctlError"
           /\ result[c].errno = hist[c].sizing.errno
           /\ result[c].value = NoValue
           /\ ~hist[c].data.sent
      /\ Failed(hist[c].data) =>
           /\ pc[c] = "done"
           /\ result[c].kind = "IoctlError"
           /\ result[c].errno = hist[c].data.errno
           /\ result[c].value = NoValue

C2_Witness ==
  \E c \in Callers :
    /\ TopologyDone(c)
    /\ Failed(hist[c].data)
    /\ hist[c].mutated
    /\ hist[c].data.graph.topology_version # SizingVersion(c)
    /\ result[c].kind = "IoctlError"
    /\ result[c].errno = hist[c].data.errno

\* C3: in every snapshot get_topology returns as Ok, every pad's entity_id
\* is the id of an entity of the snapshot and every link's source_id and
\* sink_id are ids of pads of the snapshot.
C3_ReferencesResolve ==
  \A c \in Callers :
    (TopologyDone(c) /\ result[c].kind = "Ok") =>
      LET t == result[c].value
      IN  /\ \A i \in 1..Len(t.pads) : t.pads[i].entity_id \in Ids(t.entities)
          /\ \A i \in 1..Len(t.links) :
               /\ t.links[i].source_id \in Ids(t.pads)
               /\ t.links[i].sink_id \in Ids(t.pads)

\* An Ok snapshot with pads and links, taken from a graph that had changed
\* before the call and changed again after its data request.
C3_Witness ==
  \E c \in Callers :
    /\ TopologyDone(c) /\ result[c].kind = "Ok"
    /\ Len(result[c].value.pads) > 0
    /\ Len(result[c].value.links) > 0
    /\ SizingVersion(c) > InitialGraph.topology_version
    /\ kernel.topology_version > DataVersion(c)

\* C4: in every Ok result of get_topology each of the four collections has
\* as many elements as the sizing request reported for it; a count of 0
\* gives an empty sequence, and a call whose requests both succeeded with
\* one version does not return an error because a count is 0.
C4_LengthsAreSizingCounts ==
  \A c \in Callers :
    TopologyDone(c) =>
      /\ result[c].kind = "Ok" =>
           /\ Len(result[c].value.entities) = hist[c].sizing.reply.num_entities
           /\ Len(result[c].value.interfaces) = hist[c].sizing.reply.num_interfaces
           /\ Len(result[c].value.pads) = hist[c].sizing.reply.num_pads
           /\ Len(result[c].value.links) = hist[c].sizing.reply.num_links
           /\ hist[c].sizing.reply.num_entities = 0 => result[c].value.entities = <<>>
           /\ hist[c].sizing.reply.num_interfaces = 0 => result[c].value.interfaces = <<>>
           /\ hist[c].sizing.reply.num_pads = 0 => result[c].value.pads = <<>>
           /\ hist[c].sizing.reply.num_links = 0 => result[c].value.links = <<>>
      /\ (/\ Succeeded(hist[c].sizing) /\ Succeeded(hist[c].data)
          /\ DataVersion(c) = SizingVersion(c)
          /\ \E kind \in Kinds : Num(hist[c].sizing.reply, kind) = 0)
         => result[c].kind \notin {"IoctlError", "VersionChange"}

\* An Ok result with an empty collection next to non-empty ones.
C4_Witness ==
  \E c \in Callers :
    /\ TopologyDone(c) /\ result[c].kind = "Ok"
    /\ hist[c].sizing.reply.num_interfaces = 0
    /\ result[c].value.interfaces = <<>>
    /\ hist[c].sizing.reply.num_entities = 2
    /\ Len(result[c].value.entities) = 2

\* C5: get_topology never returns Ok when the graph changed between its
\* sizing request and its data request; every Ok snapshot holds exactly the
\* kernel's four collections and version as they were when the data request
\* was answered, which is also the graph the sizing request was answered
\* from.
C5_NoTornRead ==
  \A c \in Callers :
    (TopologyDone(c) /\ result[c].kind = "Ok") =>
      /\ ~hist[c].mutated
      /\ Succeeded(hist[c].data)
      /\ hist[c].data.graph = hist[c].sizing.graph
      /\ Mirrors(result[c].value, hist[c].data.graph)

\* An Ok snapshot of a graph that has changed before the call and is no
\* longer the kernel's graph when the call returns.
C5_Witness ==
  \E c \in Callers :
    /\ TopologyDone(c) /\ result[c].kind = "Ok"
    /\ Mirrors(result[c].value, hist[c].data.graph)
    /\ hist[c].data.graph # InitialGraph
    /\ kernel # hist[c].data.graph
    /\ Len(result[c].value.entities) > 0

\* C6: a get_topology call issues at most two requests: exactly one when
\* the sizing request fails, and exactly two when the data request fails
\* or the versions differ; nreq counts the requests of the current call,
\* so nothing is issued after such an exit.
C6_NoRetry ==
  \A c \in Callers :
    fn[c] = "get_topology" =>
      /\ nreq[c] <= 2
      /\ nreq[c] = (IF hist[c].sizing.sent THEN 1 ELSE 0)
                   + (IF hist[c].data.sent THEN 1 ELSE 0)
      /\ (pc[c] = "done" /\ Failed(hist[c].sizing)) => nreq[c] = 1
      /\ (pc[c] = "done" /\ Failed(hist[c].data)) => nreq[c] = 2
      /\ (pc[c] = "done" /\ result[c].kind = "VersionChange") => nreq[c] = 2
      /\ (Succeeded(hist[c].data) /\ DataVersion(c) # SizingVersion(c))
         => pc[c] \in {"check", "done"}

C6_Witness ==
  \E c \in Callers :
    /\ TopologyDone(c)
    /\ result[c].kind = "VersionChange"
    /\ nreq[c] = 2
    /\ kernel.topology_version > DataVersion(c)

\* The steps of get_topology in the order of its text.
TopologyEdges ==
  {<<"idle", "sizing">>, <<"idle", "done">>, <<"done", "sizing">>,
   <<"sizing", "allocate">>, <<"sizing", "done">>, <<"allocate", "data">>,
   <<"data", "check">>, <<"data", "done">>, <<"check", "decode">>,
   <<"check", "done">>, <<"decode", "done">>}

\* C7 as stated: every get_topology call ends as Ok, IoctlError or
\* VersionChange, whatever the device path and the kernel's answers.
C7_ThreeOutcomes ==
  \A c \in Callers :
    TopologyDone(c) => result[c].kind \in {"Ok", "IoctlError", "VersionChange"}

\* What decides the outcome of a finished get_topology call: a panic comes
\* from a device that could not be opened or from an entity name that is
\* not NUL-terminated UTF-8 in the graph of an accepted data request; every
\* other call ends as Ok, IoctlError or VersionChange.
C7_Outcome(c) ==
  LET badName == \E i \in 1..Len(hist[c].data.graph.entities) :
                   Undecodable(hist[c].data.graph.entities[i].name)
      decoded == Succeeded(hist[c].data) /\ DataVersion(c) = SizingVersion(c)
  IN  /\ result[c].kind \in {"Ok", "IoctlError", "VersionChange", "Panic"}
      /\ result[c].kind = "Panic" <=> (~hist[c].opened \/ (decoded /\ badName))
      /\ result[c].kind = "Ok" <=> (decoded /\ ~badName)
      /\ result[c].kind = "VersionChange" <=>
           (Succeeded(hist[c].data) /\ DataVersion(c) # SizingVersion(c))
      /\ result[c].kind = "IoctlError" <=>
           (Failed(hist[c].sizing) \/ Failed(hist[c].data))

\* C7, amended: get_topology runs its steps in one fixed order without
\* going back, and every call ends in exactly one of four ways: Ok,
\* IoctlError, VersionChange, or a panic when the device cannot be opened
\* or an entity name is not NUL-terminated UTF-8.
C7_LinearFourOutcomes ==
  /\ [](\A c \in Callers : TopologyDone(c) => C7_Outcome(c))
  /\ [][\A c \in Callers :
          (fn'[c] = "get_topology" /\ pc'[c] # pc[c])
          => <<pc[c], pc'[c]>> \in TopologyEdges]_vars

\* A call that opened the device, got both requests answered with one
\* version, and panicked on an entity name.
C7_Witness ==
  \E c \in Callers :
    /\ TopologyDone(c)
    /\ hist[c].opened
    /\ Succeeded(hist[c].data)
    /\ DataVersion(c) = SizingVersion(c)
    /\ result[c].kind = "Panic"

\* C8: in every Ok result of get_topology, topology_version is the version
\* the sizing request returned and the version the data request returned.
C8_VersionOfBothPhases ==
  \A c \in Callers :
    (TopologyDone(c) /\ result[c].kind = "Ok") =>
      /\ Succeeded(hist[c].sizing) /\ Succeeded(hist[c].data)
      /\ result[c].value.topology_version = SizingVersion(c)
      /\ result[c].value.topology_version = DataVersion(c)
      /\ result[c].value.topology_version = version[c]

\* An Ok snapshot of 3 entities, 2 pads and 1 link.
C8_Witness ==
  \E c \in Callers :
    /\ TopologyDone(c) /\ result[c].kind = "Ok"
    /\ result[c].value.topology_version = SizingVersion(c)
    /\ SizingVersion(c) > InitialGraph.topology_version
    /\ Len(result[c].value.entities) = 3
    /\ Len(result[c].value.pads) = 2
    /\ Len(result[c].value.links) = 1

\* C9 as stated: every get_device_info call issues exactly one request;
\* when the request fails the call returns its errno, and when it succeeds
\* the call returns a DeviceInfo whose media_version, hw_version and
\* driver_version are those of the response.
C9_OneRequestAlways ==
  \A c \in Callers :
    InfoDone(c) =>
      LET r == hist[c].info
      IN  /\ nreq[c] = 1
          /\ Failed(r) => result[c] = [NoResult EXCEPT !.kind = "Err", !.errno = r.errno]
          /\ Succeeded(r) =>
               /\ result[c].kind = "Ok"
               /\ result[c].value.media_version = r.reply.media_version
               /\ result[c].value.hw_version = r.reply.hw_revision
               /\ result[c].value.driver_version = r.reply.driver_version

\* C9, amended: a get_device_info call that opened the device issues
\* exactly one request (a call that cannot open it panics before any
\* request); when the request fails the call returns its errno unchanged
\* and issues nothing more; when it succeeds and the four text fields are
\* NUL-terminated UTF-8 the call returns a DeviceInfo whose media_version,
\* hw_version and driver_version are the response's media_version,
\* hw_revision and driver_version; when a text field is not, it panics.
C9_OneRequestOnceOpened ==
  \A c \in Callers :
    fn[c] = "get_device_info" =>
      LET r == hist[c].info
          wellFormed == ~\E f \in {r.reply.driver, r.reply.model, r.reply.serial,
                                   r.reply.bus_info} : Undecodable(f)
      IN  /\ nreq[c] <= 1
          /\ nreq[c] = (IF r.sent THEN 1 ELSE 0)
          /\ (pc[c] = "done" /\ hist[c].opened) => nreq[c] = 1
          /\ (pc[c] = "done" /\ ~hist[c].opened) =>
               (nreq[c] = 0 /\ result[c].kind = "Panic")
          /\ Failed(r) =>
               /\ pc[c] = "done"
               /\ result[c] = [NoResult EXCEPT !.kind = "Err", !.errno = r.errno]
          /\ (pc[c] = "done" /\ Succeeded(r) /\ wellFormed) =>
               /\ result[c].kind = "Ok"
               /\ result[c].value.media_version = r.reply.media_version
               /\ result[c].value.hw_version = r.reply.hw_revision
               /\ result[c].value.driver_version = r.reply.driver_version
          /\ (pc[c] = "done" /\ Succeeded(r) /\ ~wellFormed) =>
               result[c].kind = "Panic"

C9_Witness ==
  \E c \in Callers :
    /\ InfoDone(c) /\ result[c].kind = "Ok"
    /\ nreq[c] = 1
    /\ result[c].value.media_version = 1
    /\ result[c].value.hw_version = 5
    /\ result[c].value.driver_version = 3

\* C10 as stated: for every buffer that holds a NUL, c_str_to_str yields
\* the bytes before the first NUL.
C10_PrefixOfEveryNulBuffer ==
  (strOut.called /\ HasNul(strIn)) =>
    (~strOut.ret.panic /\ strOut.ret.str = TextOf(strIn))

\* C10, amended: for every buffer that holds a NUL and whose bytes before
\* the first NUL are UTF-8, c_str_to_str yields exactly those bytes (the
\* empty string for an all-zero buffer); when those bytes are not UTF-8 it
\* panics.
C10_PrefixOfTextBuffer ==
  strOut.called =>
    /\ (HasNul(strIn) /\ IsUtf8(TextOf(strIn))) =>
         (~strOut.ret.panic /\ strOut.ret.str = TextOf(strIn))
    /\ (\A i \in 1..Len(strIn) : strIn[i] = 0) =>
         (~strOut.ret.panic /\ strOut.ret.str = <<>>)
    /\ (HasNul(strIn) /\ ~IsUtf8(TextOf(strIn))) => strOut.ret.panic

\* A buffer with text, a NUL and more bytes after it, decoded to the text.
C10_Witness ==
  /\ strOut.called
  /\ ~strOut.ret.panic
  /\ Len(strOut.ret.str) = 2
  /\ PrefixLen(strIn) = 2
  /\ \E i \in 1..Len(strIn) : i > 3 /\ strIn[i] # 0

\* C11: the four raw buffers get a length and are read only after the data
\* request succeeded and returned the version of the sizing request; on
\* both IoctlError exits and on the VersionChange exit every buffer has
\* length 0, nothing was read from it and nothing is returned.
C11_BuffersReadOnlyWhenConsistent ==
  \A c \in Callers :
    fn[c] = "get_topology" =>
      /\ (pc[c] = "decode" \/ hist[c].decoded
          \/ \E kind \in Kinds : bufs[c][kind].len > 0)
         => (Succeeded(hist[c].data) /\ DataVersion(c) = SizingVersion(c))
      /\ (pc[c] = "done" /\ result[c].kind \in {"IoctlError", "VersionChange"})
         => /\ \A kind \in Kinds : bufs[c][kind].len = 0
            /\ ~hist[c].decoded
            /\ result[c].value = NoValue

\* A VersionChange exit whose buffers the kernel has written into.
C11_Witness ==
  \E c \in Callers :
    /\ TopologyDone(c) /\ result[c].kind = "VersionChange"
    /\ Len(bufs[c]["pads"].init) > 0
    /\ bufs[c]["pads"].len = 0
    /\ ~hist[c].decoded

\* C12: when get_topology sets the lengths of its buffers (the versions
\* were found equal), the count in the request structure, which becomes the
\* length, does not exceed the capacity of the buffer, which is the count
\* the sizing request returned; this holds for each of the four buffers.
C12_LengthWithinCapacity ==
  \A c \in Callers :
    fn[c] = "get_topology" =>
      /\ (pc[c] = "check" /\ DataVersion(c) = SizingVersion(c)) =>
           \A kind \in Kinds :
             /\ Num(topology[c], kind) <= bufs[c][kind].cap
             /\ bufs[c][kind].cap = Num(hist[c].sizing.reply, kind)
      /\ (pc[c] = "decode" \/ hist[c].decoded) =>
           \A kind \in Kinds :
             /\ bufs[c][kind].len <= bufs[c][kind].cap
             /\ bufs[c][kind].len = Num(topology[c], kind)

\* Lengths set on buffers of a graph that had changed before the call.
C12_Witness ==
  \E c \in Callers :
    /\ fn[c] = "get_topology" /\ pc[c] = "decode"
    /\ bufs[c]["entities"].len = 2
    /\ bufs[c]["entities"].cap = 2
    /\ bufs[c]["links"].len = 1
    /\ bufs[c]["interfaces"].cap = 0

\* C13: the data request carries, for each collection, the address of the
\* buffer this call allocated for it and a count that is the capacity of
\* that buffer and the count the sizing request returned, and it carries
\* the version the sizing request returned.
C13_DataRequestMatchesBuffers ==
  \A c \in Callers :
    (fn[c] = "get_topology" /\ hist[c].data.sent) =>
      /\ hist[c].data.arg.topology_version = SizingVersion(c)
      /\ \A kind \in Kinds :
           /\ Ptr(hist[c].data.arg, kind) # 0
           /\ Ptr(hist[c].data.arg, kind) = Vec_as_mut_ptr(c, kind, bufs[c][kind])
           /\ Num(hist[c].data.arg, kind) = bufs[c][kind].cap
           /\ Num(hist[c].data.arg, kind) = Num(hist[c].sizing.reply, kind)

\* A data request for buffers of different capacities, one of them empty.
C13_Witness ==
  \E c \in Callers :
    /\ fn[c] = "get_topology" /\ hist[c].data.sent
    /\ hist[c].data.arg.num_entities = 2
    /\ hist[c].data.arg.num_pads = 3
    /\ hist[c].data.arg.num_interfaces = 0
    /\ bufs[c]["pads"].cap = 3

\* C14: the sizing request carries null pointers, zero counts and version
\* zero; allocation comes after a successful sizing request and before the
\* data request; when the sizing request fails nothing is allocated and no
\* data request is issued.
C14_SizingThenAllocateThenData ==
  \A c \in Callers :
    fn[c] = "get_topology" =>
      /\ hist[c].sizing.sent =>
           /\ hist[c].sizing.arg.topology_version = 0
           /\ \A kind \in Kinds :
                Ptr(hist[c].sizing.arg, kind) = 0 /\ Num(hist[c].sizing.arg, kind) = 0
      /\ pc[c] = "sizing" => (~hist[c].sizing.sent /\ bufs[c] = NoBufs)
      /\ pc[c] = "allocate" =>
           (Succeeded(hist[c].sizing) /\ ~hist[c].data.sent /\ bufs[c] = NoBufs
            /\ \A kind \in Kinds : Ptr(topology[c], kind) = 0)
      /\ pc[c] = "data" =>
           /\ Succeeded(hist[c].sizing) /\ ~hist[c].data.sent
           /\ \A kind \in Kinds :
                /\ Ptr(topology[c], kind) # 0
                /\ bufs[c][kind].cap = Num(hist[c].sizing.reply, kind)
      /\ hist[c].data.sent =>
           /\ Succeeded(hist[c].sizing)
           /\ \A kind \in Kinds : Ptr(hist[c].data.arg, kind) # 0
      /\ Failed(hist[c].sizing) =>
           /\ pc[c] = "done"
           /\ bufs[c] = NoBufs
           /\ ~hist[c].data.sent
           /\ \A kind \in Kinds : Ptr(topology[c], kind) = 0

\* A failed sizing request against a non-empty graph that has changed.
C14_Witness ==
  \E c \in Callers :
    /\ TopologyDone(c)
    /\ Failed(hist[c].sizing)
    /\ bufs[c] = NoBufs
    /\ kernel.topology_version > InitialGraph.topology_version
    /\ Len(kernel.entities) > 0

\* What the kernel wrote into caller c's buffers, as a graph.
Written(c) ==
  [topology_version |-> topology[c].topology_version,
   entities |-> bufs[c]["entities"].init,
   interfaces |-> bufs[c]["interfaces"].init,
   pads |-> bufs[c]["pads"].init,
   links |-> bufs[c]["links"].init]

\* C15: in an Ok result every collection has, at every index, the field
\* values of the raw record the kernel wrote at that index of the buffer
\* (the name being the text of the raw name), and as many elements as the
\* buffer has length.
C15_DecodePreservesOrder ==
  \A c \in Callers :
    (TopologyDone(c) /\ result[c].kind = "Ok") =>
      /\ Mirrors(result[c].value, Written(c))
      /\ Len(result[c].value.entities) = bufs[c]["entities"].len
      /\ Len(result[c].value.interfaces) = bufs[c]["interfaces"].len
      /\ Len(result[c].value.pads) = bufs[c]["pads"].len
      /\ Len(result[c].value.links) = bufs[c]["links"].len

\* An Ok snapshot with two entities of different names, two pads, a link and
\* an interface.
C15_Witness ==
  \E c \in Callers :
    /\ TopologyDone(c) /\ result[c].kind = "Ok"
    /\ Len(result[c].value.entities) = 2
    /\ result[c].value.entities[1].name # result[c].value.entities[2].name
    /\ Len(result[c].value.pads) = 2
    /\ Len(result[c].value.links) = 1
    /\ Len(result[c].value.interfaces) = 1

\* C16 as stated: a get_topology call made after a call that returned
\* VersionChange, whose two requests succeed with no change of the graph
\* between them, returns Ok with the version of the kernel's graph.
C16_RetryReturnsOk ==
  \A c \in Callers :
    (/\ TopologyDone(c) /\ hist[c].prev = "VersionChange"
     /\ Succeeded(hist[c].sizing) /\ Succeeded(hist[c].data)
     /\ ~hist[c].mutated)
    => /\ result[c].kind = "Ok"
       /\ result[c].value.topology_version = hist[c].data.graph.topology_version

\* What a retry after VersionChange starts from and ends in: it starts with
\* a zeroed request structure, no buffers and no saved version; when its
\* two requests succeed with no change of the graph between them it returns
\* Ok with the graph and version the kernel had at the data request, unless
\* an entity name is not NUL-terminated UTF-8, when it panics.
C16_Retry(c) ==
  LET badName == \E i \in 1..Len(hist[c].data.graph.entities) :
                   Undecodable(hist[c].data.graph.entities[i].name)
  IN  /\ pc[c] = "sizing" =>
           (topology[c] = ZeroedTopology /\ bufs[c] = NoBufs /\ version[c] = 0
            /\ nreq[c] = 0 /\ result[c] = NoResult)
      /\ (/\ pc[c] = "done"
          /\ Succeeded(hist[c].sizing) /\ Succeeded(hist[c].data)
          /\ ~hist[c].mutated)
         => IF badName THEN result[c].kind = "Panic"
            ELSE /\ result[c].kind = "Ok"
                 /\ Mirrors(result[c].value, hist[c].data.graph)

\* C16, amended: a call made after a VersionChange keeps nothing of the
\* call before it and, when its two requests succeed with no change of the
\* graph between them and every entity name is NUL-terminated UTF-8,
\* returns Ok with the kernel's version (it panics on a name that is not);
\* a caller that calls again on every VersionChange eventually gets an
\* outcome other than VersionChange once the graph stops changing.
C16_RetryRecovers ==
  /\ [](\A c \in Callers :
          (fn[c] = "get_topology" /\ hist[c].prev = "VersionChange") => C16_Retry(c))
  /\ <>(TopologyDone(1) /\ result[1].kind # "VersionChange")

\* A retry after VersionChange that returned Ok with the version of a graph
\* that had changed twice.
C16_Witness ==
  \E c \in Callers :
    /\ TopologyDone(c) /\ hist[c].prev = "VersionChange"
    /\ result[c].kind = "Ok"
    /\ result[c].value.topology_version = InitialGraph.topology_version + MaxMutations
    /\ Len(result[c].value.entities) > 0

\* What caller c's call holds and returns, in terms of its own two
\* requests alone.
C17_OwnPair(c) ==
  LET own == hist[c]
      wrote == KernelTopology(own.data.graph, own.data.arg).written
  IN  /\ TopologyDone(c) =>
           /\ result[c].kind = "VersionChange" <=>
                (/\ Succeeded(own.sizing) /\ Succeeded(own.data)
                 /\ own.data.reply.topology_version
                      # own.sizing.reply.topology_version)
           /\ Succeeded(own.data) =>
                (own.mutated <=> own.data.graph.topology_version
                                   # own.sizing.graph.topology_version)
           /\ result[c].kind = "Ok" => Mirrors(result[c].value, own.data.graph)
      /\ pc[c] \in {"sizing", "allocate", "data"} =>
           \A kind \in Kinds : bufs[c][kind].init = <<>>
      /\ pc[c] = "allocate" => topology[c] = own.sizing.reply
      /\ pc[c] = "data" =>
           /\ topology[c].topology_version = own.sizing.reply.topology_version
           /\ \A kind \in Kinds :
                /\ Num(topology[c], kind) = Num(own.sizing.reply, kind)
                /\ Ptr(topology[c], kind) = Vec_as_mut_ptr(c, kind, bufs[c][kind])
      /\ (pc[c] \in {"check", "decode"} \/ (pc[c] = "done" /\ Succeeded(own.data))) =>
           /\ topology[c] = own.data.reply
           /\ \A kind \in Kinds : bufs[c][kind].init = wrote[kind]

\* The storage of two callers' buffers is never the same memory.
C17_Disjoint ==
  \A c, d \in Callers : \A k1, k2 \in Kinds :
    (c # d /\ bufs[c][k1].cap > 0 /\ bufs[d][k2].cap > 0)
    => Vec_as_mut_ptr(c, k1, bufs[c][k1]) # Vec_as_mut_ptr(d, k2, bufs[d][k2])

C18_UndecodableTextPanics ==
  \A c \in Callers :
    /\ (/\ TopologyDone(c)
        /\ Succeeded(hist[c].sizing) /\ Succeeded(hist[c].data)
        /\ DataVersion(c) = SizingVersion(c)
        /\ \E i \in 1..Len(bufs[c]["entities"].init) :
             Undecodable(bufs[c]["entities"].init[i].name))
       => /\ result[c].kind = "Panic"
          /\ result[c].value = NoValue
          /\ result[c].errno = 0
    /\ (/\ InfoDone(c)
        /\ Succeeded(hist[c].info)
        /\ \/ Undecodable(hist[c].info.reply.driver)
           \/ Undecodable(hist[c].info.reply.model)
           \/ Undecodable(hist[c].info.reply.serial)
           \/ Undecodable(hist[c].info.reply.bus_info))
       => /\ result[c].kind = "Panic"
          /\ result[c].value = NoValue
          /\ result[c].errno = 0

\* get_topology ended on an entity name with no NUL that follows a name
\* that decodes, and get_device_info ended on an identity with a field that
\* is not UTF-8 after fields that decode.
C18_Witness ==
  \E c, d \in Callers :
    /\ TopologyDone(c) /\ result[c].kind = "Panic"
    /\ Len(bufs[c]["entities"].init) = 2
    /\ bufs[c]["entities"].init[1].name = GoodText
    /\ bufs[c]["entities"].init[2].name = UntermText
    /\ InfoDone(d) /\ result[d].kind = "Panic"
    /\ hist[d].info.reply.driver = GoodText
    /\ hist[d].info.reply.bus_info = BadText

\* C19: the File a call opened is open at every request the call issues and
\* while the call runs, and is closed once the call has returned, however it
\* returned.
C19_HandleOpenUntilReturn ==
  \A c \in Callers :
    /\ hist[c].sizing.sent => hist[c].sizing.fd_open
    /\ hist[c].data.sent => hist[c].data.fd_open
    /\ hist[c].info.sent => hist[c].info.fd_open
    /\ pc[c] \in {"sizing", "allocate", "data", "check", "decode",
                  "info", "info_decode"} => video_device[c]
    /\ pc[c] \in {"idle", "done"} => ~video_device[c]

\* get_topology has returned VersionChange after two requests on its open
\* File and get_device_info has returned Ok after one, and both Files are
\* closed.
C19_Witness ==
  \E c, d \in Callers :
    /\ TopologyDone(c) /\ result[c].kind = "VersionChange"
    /\ hist[c].sizing.fd_open /\ hist[c].data.fd_open
    /\ ~video_device[c]
    /\ InfoDone(d) /\ result[d].kind = "Ok"
    /\ hist[d].info.fd_open
    /\ ~video_device[d]

====
